---- MODULE Spec2Model ----
(***************************************************************************)
(* Gossip message codec of src/network/p2p/protocol.ts.                    *)
(*                                                                         *)
(* encodeMessage: isGossipMessage -> JSON.stringify -> TextEncoder.encode  *)
(* decodeMessage: TextDecoder.decode -> JSON.parse -> isGossipMessage      *)
(*                                                                         *)
(* Text is a sequence of UTF-16 code units (0..65535), a byte array is a   *)
(* sequence of 0..255.  A JavaScript value is a record tagged by t:        *)
(*   undefined, null, boolean(b), number(k, neg, m, e), string(s),         *)
(*   bigint(n), function, array(items), object(props), cyclic              *)
(* A finite number is (-1)^neg * m * 10^e with m not divisible by 10       *)
(* (m = 0 has e = 0); k is "fin", "nan" or "inf".  An object is the        *)
(* ordered list of its own enumerable properties [key, val]; cyclic is a   *)
(* property value that refers back to an enclosing object.                 *)
(***************************************************************************)
EXTENDS Integers, Sequences, FiniteSets, TLC

(***************************************************************************)
(* JavaScript values                                                       *)
(***************************************************************************)
Undefined == [t |-> "undefined"]

JSNull == [t |-> "null"]

JSBool(b) == [t |-> "boolean", b |-> b]

JSString(s) == [t |-> "string", s |-> s]

JSNumber(neg, m, e) == [t |-> "number", k |-> "fin", neg |-> neg, m |-> m, e |-> e]

JSInt(n) == JSNumber(FALSE, n, 0)

NaN == [t |-> "number", k |-> "nan", neg |-> FALSE, m |-> 0, e |-> 0]

JSInfinity(neg) == [t |-> "number", k |-> "inf", neg |-> neg, m |-> 0, e |-> 0]

JSBigInt(n) == [t |-> "bigint", n |-> n]

JSFunction == [t |-> "function"]

JSArray(items) == [t |-> "array", items |-> items]

JSObject(props) == [t |-> "object", props |-> props]

Cyclic == [t |-> "cyclic"]

Prop(key, val) == [key |-> key, val |-> val]


RECURSIVE LookupFrom(_, _, _)
LookupFrom(props, key, i) ==
  IF i > Len(props) THEN Undefined
  ELSE IF props[i].key = key THEN props[i].val
  ELSE LookupFrom(props, key, i + 1)

\* v[key], with undefined for a missing property; property access on
\* undefined or null throws, which every caller below guards against.
Get(v, key) == IF v.t = "object" THEN LookupFrom(v.props, key, 1) ELSE Undefined

(***************************************************************************)
(* Constants of protocol.ts                                                *)
(***************************************************************************)
\* 'f_network_topic_primary'
NETWORK_TOPIC_PRIMARY ==
  <<102,95,110,101,116,119,111,114,107,95,116,111,112,105,99,95,112,114,105,109,97,114,121>>

\* 'f_network_topic_contact'
NETWORK_TOPIC_CONTACT ==
  <<102,95,110,101,116,119,111,114,107,95,116,111,112,105,99,95,99,111,110,116,97,99,116>>

GOSSIP_CONTACT_INTERVAL == 10000

GOSSIP_TOPICS == <<NETWORK_TOPIC_CONTACT, NETWORK_TOPIC_PRIMARY>>

(***************************************************************************)
(* JSON.stringify                                                          *)
(***************************************************************************)
RECURSIVE Digits(_)
Digits(m) == IF m < 10 THEN <<48 + m>> ELSE Append(Digits(m \div 10), 48 + (m % 10))

Zeros(n) == [i \in 1..n |-> 48]

\* Number::toString(x, 10) for a finite x
NumberToString(x) ==
  IF x.m = 0 THEN <<48>>
  ELSE LET d == Digits(x.m)
           k == Len(d)
           n == k + x.e
           ex == n - 1
           es == (IF ex < 0 THEN <<45>> ELSE <<43>>) \o Digits(IF ex < 0 THEN -ex ELSE ex)
           body ==
             IF k <= n /\ n <= 21 THEN d \o Zeros(n - k)
             ELSE IF 0 < n /\ n <= 21 THEN SubSeq(d, 1, n) \o <<46>> \o SubSeq(d, n + 1, k)
             ELSE IF -6 < n /\ n <= 0 THEN <<48, 46>> \o Zeros(-n) \o d
             ELSE IF k = 1 THEN d \o <<101>> \o es
             ELSE <<d[1], 46>> \o SubSeq(d, 2, k) \o <<101>> \o es
       IN (IF x.neg THEN <<45>> ELSE <<>>) \o body

HexDigit(h) == IF h < 10 THEN 48 + h ELSE 87 + h

\* UnicodeEscape: \uxxxx in lower-case hexadecimal
UnicodeEscape(c) ==
  <<92, 117, HexDigit(c \div 4096), HexDigit((c \div 256) % 16),
    HexDigit((c \div 16) % 16), HexDigit(c % 16)>>

IsLeadingSurrogate(c) == 55296 <= c /\ c <= 56319

IsTrailingSurrogate(c) == 56320 <= c /\ c <= 57343

\* the JSON text of the code unit s[i]: a surrogate is written as it is when
\* it is half of a pair and escaped when it stands alone
QuoteCodeUnit(s, i) ==
  LET c == s[i] IN
  IF c = 8 THEN <<92, 98>>
  ELSE IF c = 9 THEN <<92, 116>>
  ELSE IF c = 10 THEN <<92, 110>>
  ELSE IF c = 12 THEN <<92, 102>>
  ELSE IF c = 13 THEN <<92, 114>>
  ELSE IF c = 34 THEN <<92, 34>>
  ELSE IF c = 92 THEN <<92, 92>>
  ELSE IF c < 32 THEN UnicodeEscape(c)
  ELSE IF IsLeadingSurrogate(c)
    THEN (IF i < Len(s) /\ IsTrailingSurrogate(s[i + 1]) THEN <<c>> ELSE UnicodeEscape(c))
  ELSE IF IsTrailingSurrogate(c)
    THEN (IF i > 1 /\ IsLeadingSurrogate(s[i - 1]) THEN <<c>> ELSE UnicodeEscape(c))
  ELSE <<c>>

RECURSIVE QuoteRange(_, _, _)
\* the JSON text of s[lo..hi]
QuoteRange(s, lo, hi) ==
  IF lo > hi THEN <<>>
  ELSE IF lo = hi THEN QuoteCodeUnit(s, lo)
  ELSE QuoteRange(s, lo, (lo + hi) \div 2) \o QuoteRange(s, ((lo + hi) \div 2) + 1, hi)

\* QuoteJSONString (well-formed JSON.stringify: lone surrogates are escaped)
QuoteJSONString(s) == <<34>> \o QuoteRange(s, 1, Len(s)) \o <<34>>

SerText(text) == [k |-> "text", text |-> text]

SerUndefined == [k |-> "undefined", text |-> <<>>]

SerThrow == [k |-> "throw", text |-> <<>>]

RECURSIVE SerializeJSONProperty(_), SerializeJSONArray(_, _), SerializeJSONObject(_, _, _)
\* SerializeJSONProperty: text, undefined (the property is left out), or a
\* TypeError (a BigInt, a cyclic structure)
SerializeJSONProperty(v) ==
  CASE v.t = "null" -> SerText(<<110, 117, 108, 108>>)
    [] v.t = "boolean" ->
         SerText(IF v.b THEN <<116, 114, 117, 101>> ELSE <<102, 97, 108, 115, 101>>)
    [] v.t = "string" -> SerText(QuoteJSONString(v.s))
    [] v.t = "number" ->
         SerText(IF v.k = "fin" THEN NumberToString(v) ELSE <<110, 117, 108, 108>>)
    [] v.t = "bigint" -> SerThrow
    [] v.t = "cyclic" -> SerThrow
    [] v.t = "array" ->
         LET r == SerializeJSONArray(v.items, 1)
         IN IF r.k = "throw" THEN r ELSE SerText(<<91>> \o r.text \o <<93>>)
    [] v.t = "object" ->
         LET r == SerializeJSONObject(v.props, 1, TRUE)
         IN IF r.k = "throw" THEN r ELSE SerText(<<123>> \o r.text \o <<125>>)
    [] OTHER -> SerUndefined

\* the elements from index i on, comma separated; undefined becomes null
SerializeJSONArray(items, i) ==
  IF i > Len(items) THEN SerText(<<>>)
  ELSE LET h == SerializeJSONProperty(items[i]) IN
    IF h.k = "throw" THEN SerThrow
    ELSE LET rest == SerializeJSONArray(items, i + 1)
             ht == IF h.k = "undefined" THEN <<110, 117, 108, 108>> ELSE h.text
         IN IF rest.k = "throw" THEN SerThrow
            ELSE SerText((IF i > 1 THEN <<44>> ELSE <<>>) \o ht \o rest.text)

\* the properties from index i on; first says that none was written yet
SerializeJSONObject(props, i, first) ==
  IF i > Len(props) THEN SerText(<<>>)
  ELSE LET h == SerializeJSONProperty(props[i].val) IN
    IF h.k = "throw" THEN SerThrow
    ELSE IF h.k = "undefined" THEN SerializeJSONObject(props, i + 1, first)
    ELSE LET rest == SerializeJSONObject(props, i + 1, FALSE)
         IN IF rest.k = "throw" THEN SerThrow
            ELSE SerText((IF first THEN <<>> ELSE <<44>>)
                         \o QuoteJSONString(props[i].key) \o <<58>> \o h.text \o rest.text)

JSONstringify(v) == SerializeJSONProperty(v)

(***************************************************************************)
(* TextEncoder.encode: USVString conversion, then UTF-8                    *)
(***************************************************************************)
\* the code point that the code unit s[i] contributes: a pair becomes one
\* code point at its leading half, a lone surrogate becomes U+FFFD
CodePointAt(s, i) ==
  LET c == s[i] IN
  IF IsLeadingSurrogate(c)
    THEN (IF i < Len(s) /\ IsTrailingSurrogate(s[i + 1])
            THEN <<65536 + (c - 55296) * 1024 + (s[i + 1] - 56320)>>
            ELSE <<65533>>)
  ELSE IF IsTrailingSurrogate(c)
    THEN (IF i > 1 /\ IsLeadingSurrogate(s[i - 1]) THEN <<>> ELSE <<65533>>)
  ELSE <<c>>

UTF8Encode(cp) ==
  IF cp < 128 THEN <<cp>>
  ELSE IF cp < 2048 THEN <<192 + (cp \div 64), 128 + (cp % 64)>>
  ELSE IF cp < 65536
    THEN <<224 + (cp \div 4096), 128 + ((cp \div 64) % 64), 128 + (cp % 64)>>
  ELSE <<240 + (cp \div 262144), 128 + ((cp \div 4096) % 64),
         128 + ((cp \div 64) % 64), 128 + (cp % 64)>>

RECURSIVE UTF8EncodeRange(_, _, _)
\* the UTF-8 bytes of the code units s[lo..hi]
UTF8EncodeRange(s, lo, hi) ==
  IF lo > hi THEN <<>>
  ELSE IF lo = hi
    THEN (LET cp == CodePointAt(s, lo) IN IF cp = <<>> THEN <<>> ELSE UTF8Encode(cp[1]))
  ELSE UTF8EncodeRange(s, lo, (lo + hi) \div 2)
       \o UTF8EncodeRange(s, ((lo + hi) \div 2) + 1, hi)

TextEncoderEncode(text) == UTF8EncodeRange(text, 1, Len(text))

(***************************************************************************)
(* TextDecoder.decode: UTF-8, fatal = false, ignoreBOM = false             *)
(***************************************************************************)
\* how many continuation bytes the lead byte x opens a sequence for; 0 when
\* x is not a lead byte (C0, C1 and F5..FF never are)
BytesNeeded(x) ==
  IF 194 <= x /\ x <= 223 THEN 1
  ELSE IF 224 <= x /\ x <= 239 THEN 2
  ELSE IF 240 <= x /\ x <= 244 THEN 3
  ELSE 0

\* x may be the n-th byte after lead: the first one has a narrower range
\* after E0, ED, F0 and F4 (no overlong forms, no surrogates, at most U+10FFFF)
Continues(lead, n, x) ==
  LET lower == IF n = 1 /\ lead = 224 THEN 160 ELSE IF n = 1 /\ lead = 240 THEN 144 ELSE 128
      upper == IF n = 1 /\ lead = 237 THEN 159 ELSE IF n = 1 /\ lead = 244 THEN 143 ELSE 191
  IN lower <= x /\ x <= upper

\* the n bytes after the lead byte b[i] exist and continue its sequence
ValidPrefix(b, i, n) ==
  /\ n <= BytesNeeded(b[i])
  /\ i + n <= Len(b)
  /\ \A j \in 1..n : Continues(b[i], j, b[i + j])

\* the code point of the complete sequence that starts at b[i]
SequenceValue(b, i) ==
  LET n == BytesNeeded(b[i]) IN
  IF n = 1 THEN (b[i] - 192) * 64 + (b[i + 1] - 128)
  ELSE IF n = 2 THEN (b[i] - 224) * 4096 + (b[i + 1] - 128) * 64 + (b[i + 2] - 128)
  ELSE (b[i] - 240) * 262144 + (b[i + 1] - 128) * 4096 + (b[i + 2] - 128) * 64
       + (b[i + 3] - 128)

\* what the decoder emits for the byte b[i]: a sequence yields its code
\* point, or one U+FFFD when it is cut short or malformed, at its lead
\* byte; any other byte outside a sequence yields U+FFFD (fatal is false)
DecodeAt(b, i) ==
  LET x == b[i] IN
  IF x <= 127 THEN <<x>>
  ELSE IF BytesNeeded(x) > 0
    THEN (IF ValidPrefix(b, i, BytesNeeded(x)) THEN <<SequenceValue(b, i)>> ELSE <<65533>>)
  ELSE IF \E n \in 1..3 : i - n >= 1 /\ BytesNeeded(b[i - n]) > 0 /\ ValidPrefix(b, i - n, n)
    THEN <<>>
  ELSE <<65533>>

RECURSIVE UTF8DecodeRange(_, _, _)
\* the code points of the bytes b[lo..hi]
UTF8DecodeRange(b, lo, hi) ==
  IF lo > hi THEN <<>>
  ELSE IF lo = hi THEN DecodeAt(b, lo)
  ELSE UTF8DecodeRange(b, lo, (lo + hi) \div 2)
       \o UTF8DecodeRange(b, ((lo + hi) \div 2) + 1, hi)

UTF8Decode(b) == UTF8DecodeRange(b, 1, Len(b))

RECURSIVE ToCodeUnits(_, _, _)
\* the UTF-16 code units of the code points cps[lo..hi]
ToCodeUnits(cps, lo, hi) ==
  IF lo > hi THEN <<>>
  ELSE IF lo = hi
    THEN (IF cps[lo] >= 65536
            THEN <<55296 + ((cps[lo] - 65536) \div 1024), 56320 + ((cps[lo] - 65536) % 1024)>>
            ELSE <<cps[lo]>>)
  ELSE ToCodeUnits(cps, lo, (lo + hi) \div 2) \o ToCodeUnits(cps, ((lo + hi) \div 2) + 1, hi)

\* a leading byte order mark is dropped
StripBOM(cps) ==
  IF Len(cps) > 0 /\ cps[1] = 65279
    THEN ToCodeUnits(cps, 2, Len(cps))
    ELSE ToCodeUnits(cps, 1, Len(cps))

TextDecoderDecode(data) == StripBOM(UTF8Decode(data))

(***************************************************************************)
(* JSON.parse                                                              *)
(***************************************************************************)
At(t, i) == IF 1 <= i /\ i <= Len(t) THEN t[i] ELSE -1

IsDigit(c) == 48 <= c /\ c <= 57

IsWhiteSpace(c) == c \in {32, 9, 10, 13}

RECURSIVE SkipWS(_, _)
SkipWS(t, i) == IF IsWhiteSpace(At(t, i)) THEN SkipWS(t, i + 1) ELSE i

PErr == [ok |-> FALSE, val |-> JSNull, pos |-> 0]

POk(val, pos) == [ok |-> TRUE, val |-> val, pos |-> pos]

HexVal(c) ==
  IF IsDigit(c) THEN c - 48
  ELSE IF 65 <= c /\ c <= 70 THEN c - 55
  ELSE IF 97 <= c /\ c <= 102 THEN c - 87
  ELSE -1

\* the code unit a single-character escape stands for, -1 if there is none
EscapeVal(c) ==
  CASE c = 34 -> 34 [] c = 92 -> 92 [] c = 47 -> 47 [] c = 98 -> 8 [] c = 102 -> 12
    [] c = 110 -> 10 [] c = 114 -> 13 [] c = 116 -> 9 [] OTHER -> -1

RECURSIVE ParseChars(_, _, _)
\* the characters of a string literal after its opening quote
ParseChars(t, i, acc) ==
  LET c == At(t, i) IN
  IF c = -1 \/ (0 <= c /\ c < 32) THEN PErr
  ELSE IF c = 34 THEN POk(JSString(acc), i + 1)
  ELSE IF c = 92 THEN
    LET e == At(t, i + 1) IN
    IF e = 117 THEN
      LET h1 == HexVal(At(t, i + 2))
          h2 == HexVal(At(t, i + 3))
          h3 == HexVal(At(t, i + 4))
          h4 == HexVal(At(t, i + 5))
      IN IF h1 < 0 \/ h2 < 0 \/ h3 < 0 \/ h4 < 0 THEN PErr
         ELSE ParseChars(t, i + 6, Append(acc, h1 * 4096 + h2 * 256 + h3 * 16 + h4))
    ELSE IF EscapeVal(e) < 0 THEN PErr
    ELSE ParseChars(t, i + 2, Append(acc, EscapeVal(e)))
  ELSE ParseChars(t, i + 1, Append(acc, c))

RECURSIVE DigitRun(_, _)
\* the index of the first character from i on that is not a digit
DigitRun(t, i) == IF IsDigit(At(t, i)) THEN DigitRun(t, i + 1) ELSE i

RECURSIVE DigitsValue(_, _, _, _)
\* the value of the digits t[i..j-1]
DigitsValue(t, i, j, acc) ==
  IF i >= j THEN acc ELSE DigitsValue(t, i + 1, j, acc * 10 + (t[i] - 48))

RECURSIVE Pow10(_)
Pow10(n) == IF n <= 0 THEN 1 ELSE 10 * Pow10(n - 1)

RECURSIVE Normalize(_, _, _)
\* the number (-1)^neg * m * 10^e with the trailing zeros of m moved into e
Normalize(neg, m, e) ==
  IF m = 0 THEN JSNumber(neg, 0, 0)
  ELSE IF m % 10 = 0 THEN Normalize(neg, m \div 10, e + 1)
  ELSE JSNumber(neg, m, e)

\* the Number value of a decimal literal: beyond the largest double
\* (1.7976931348623157e308) it is Infinity, below the smallest it is zero
ToDouble(neg, m, e) ==
  LET x == Normalize(neg, m, e)
      k == Len(Digits(x.m))
      n == k + x.e
  IN IF x.m = 0 THEN x
     ELSE IF n > 309 \/ (n = 309 /\ x.m * Pow10(9 - k) > 179769313) THEN JSInfinity(neg)
     ELSE IF n < -323 THEN JSNumber(neg, 0, 0)
     ELSE x

\* -? (0 | [1-9][0-9]*) (. [0-9]+)? ([eE] [+-]? [0-9]+)?
ParseNumber(t, i) ==
  LET neg == At(t, i) = 45
      i0 == IF neg THEN i + 1 ELSE i
      i1 == IF At(t, i0) = 48 THEN i0 + 1 ELSE DigitRun(t, i0)
      hasFrac == At(t, i1) = 46
      i2 == IF hasFrac THEN DigitRun(t, i1 + 1) ELSE i1
      hasExp == At(t, i2) \in {101, 69}
      expNeg == At(t, i2 + 1) = 45
      i3 == IF At(t, i2 + 1) \in {43, 45} THEN i2 + 2 ELSE i2 + 1
      i4 == IF hasExp THEN DigitRun(t, i3) ELSE i2
      mant == DigitsValue(t, i1 + 1, i2, DigitsValue(t, i0, i1, 0))
      fracLen == IF hasFrac THEN i2 - (i1 + 1) ELSE 0
      expAbs == IF hasExp THEN DigitsValue(t, i3, i4, 0) ELSE 0
      exp == IF expNeg THEN -expAbs ELSE expAbs
  IN IF i1 = i0 \/ (hasFrac /\ i2 = i1 + 1) \/ (hasExp /\ i4 = i3) THEN PErr
     ELSE POk(ToDouble(neg, mant, exp - fracLen), i4)

\* t[i..] starts with the characters of lit
Matches(t, i, lit) == \A j \in 1..Len(lit) : At(t, i + j - 1) = lit[j]

RECURSIVE SetPropFrom(_, _, _, _)
SetPropFrom(props, key, val, i) ==
  IF i > Len(props) THEN Append(props, Prop(key, val))
  ELSE IF props[i].key = key THEN [props EXCEPT ![i] = Prop(key, val)]
  ELSE SetPropFrom(props, key, val, i + 1)

\* CreateDataProperty: a repeated key keeps its place and takes the new value
SetProp(props, key, val) == SetPropFrom(props, key, val, 1)

RECURSIVE ParseValue(_, _), ParseElements(_, _, _), ParseMembers(_, _, _)
RECURSIVE ElementParsed(_, _, _), ElementsNext(_, _, _)
RECURSIVE KeyParsed(_, _, _), MemberParsed(_, _, _, _), MembersNext(_, _, _)
\* the JSON value that starts at t[i]; i is past any white space
ParseValue(t, i) ==
  LET c == At(t, i) IN
  IF c = 123 THEN
    LET j == SkipWS(t, i + 1)
    IN IF At(t, j) = 125 THEN POk(JSObject(<<>>), j + 1) ELSE ParseMembers(t, j, <<>>)
  ELSE IF c = 91 THEN
    LET j == SkipWS(t, i + 1)
    IN IF At(t, j) = 93 THEN POk(JSArray(<<>>), j + 1) ELSE ParseElements(t, j, <<>>)
  ELSE IF c = 34 THEN ParseChars(t, i + 1, <<>>)
  ELSE IF c = 45 \/ IsDigit(c) THEN ParseNumber(t, i)
  ELSE IF Matches(t, i, <<116, 114, 117, 101>>) THEN POk(JSBool(TRUE), i + 4)
  ELSE IF Matches(t, i, <<102, 97, 108, 115, 101>>) THEN POk(JSBool(FALSE), i + 5)
  ELSE IF Matches(t, i, <<110, 117, 108, 108>>) THEN POk(JSNull, i + 4)
  ELSE PErr

\* value (, value)* ] with the first value at t[i]
ParseElements(t, i, acc) == ElementParsed(t, ParseValue(t, i), acc)

\* r is the element just parsed, acc the elements before it
ElementParsed(t, r, acc) ==
  IF ~r.ok THEN PErr ELSE ElementsNext(t, SkipWS(t, r.pos), Append(acc, r.val))

\* after an element: ] ends the array, a comma brings the next element
ElementsNext(t, j, items) ==
  IF At(t, j) = 93 THEN POk(JSArray(items), j + 1)
  ELSE IF At(t, j) = 44 THEN ParseElements(t, SkipWS(t, j + 1), items)
  ELSE PErr

\* string : value (, string : value)* } with the first string at t[i]
ParseMembers(t, i, acc) ==
  IF At(t, i) # 34 THEN PErr ELSE KeyParsed(t, ParseChars(t, i + 1, <<>>), acc)

\* key is the member name just parsed: a colon and the value follow
KeyParsed(t, key, acc) ==
  IF ~key.ok \/ At(t, SkipWS(t, key.pos)) # 58 THEN PErr
  ELSE MemberParsed(t, key.val.s, ParseValue(t, SkipWS(t, SkipWS(t, key.pos) + 1)), acc)

\* r is the value of the member key, acc the members before it
MemberParsed(t, key, r, acc) ==
  IF ~r.ok THEN PErr ELSE MembersNext(t, SkipWS(t, r.pos), SetProp(acc, key, r.val))

\* after a member: } ends the object, a comma brings the next member
MembersNext(t, j, props) ==
  IF At(t, j) = 125 THEN POk(JSObject(props), j + 1)
  ELSE IF At(t, j) = 44 THEN ParseMembers(t, SkipWS(t, j + 1), props)
  ELSE PErr

\* r is the value parsed from text: only white space may follow it
ParseEnd(text, r) ==
  IF r.ok /\ SkipWS(text, r.pos) > Len(text)
    THEN [k |-> "value", val |-> r.val]
    ELSE [k |-> "throw", val |-> Undefined]

\* the parsed value, or a SyntaxError
JSONparse(text) == ParseEnd(text, ParseValue(text, SkipWS(text, 1)))

(***************************************************************************)
(* Type guards (~/types/typeguards), from the validator's contract         *)
(***************************************************************************)
\* 'content'
kContent == <<99,111,110,116,101,110,116>>

\* 'topics'
kTopics == <<116,111,112,105,99,115>>

\* 'peerId'
kPeerId == <<112,101,101,114,73,100>>

\* 'rpcAddress'
kRpcAddress == <<114,112,99,65,100,100,114,101,115,115>>

\* 'address'
kAddress == <<97,100,100,114,101,115,115>>

\* 'port'
kPort == <<112,111,114,116>>

\* 'family'
kFamily == <<102,97,109,105,108,121>>

\* 'message'
kMessage == <<109,101,115,115,97,103,101>>

\* 'root'
kRoot == <<114,111,111,116>>

\* 'count'
kCount == <<99,111,117,110,116>>

\* 'hash'
kHash == <<104,97,115,104>>

\* 'transactionHash'
kTransactionHash == <<116,114,97,110,115,97,99,116,105,111,110,72,97,115,104>>

IsString(v) == v.t = "string"

\* typeof v === 'number': NaN and the infinities are numbers
IsNumber(v) == v.t = "number"

\* AddressInfo: { address: string, port: number, family?: string }
isAddressInfo(v) ==
  /\ v.t = "object"
  /\ IsString(Get(v, kAddress))
  /\ IsNumber(Get(v, kPort))
  /\ Get(v, kFamily).t \in {"undefined", "string"}

\* the shape predicate of the application message, owned by its subsystem
isMessage(v) == v.t = "object" /\ IsString(Get(v, kHash))

\* the shape predicate of the identity registry event, owned by its subsystem
isIDRegistryEvent(v) == v.t = "object" /\ IsString(Get(v, kTransactionHash))

isContactInfo(c) ==
  /\ c.t = "object"
  /\ IsString(Get(c, kPeerId))
  /\ (Get(c, kRpcAddress).t = "undefined" \/ isAddressInfo(Get(c, kRpcAddress)))

isIDRegistryContent(c) ==
  /\ c.t = "object"
  /\ IsString(Get(c, kRoot))
  /\ IsNumber(Get(c, kCount))
  /\ isIDRegistryEvent(Get(c, kMessage))

isUserContent(c) ==
  /\ c.t = "object"
  /\ IsString(Get(c, kRoot))
  /\ IsNumber(Get(c, kCount))
  /\ isMessage(Get(c, kMessage))

isValidContent(c) == isContactInfo(c) \/ isIDRegistryContent(c) \/ isUserContent(c)

\* a non-empty array of strings
isTopicList(ts) ==
  /\ ts.t = "array"
  /\ Len(ts.items) > 0
  /\ \A i \in 1..Len(ts.items) : IsString(ts.items[i])

\* never throws: a value without properties is rejected
isGossipMessage(msg) ==
  /\ msg.t = "object"
  /\ isTopicList(Get(msg, kTopics))
  /\ isValidContent(Get(msg, kContent))

(***************************************************************************)
(* encodeMessage and decodeMessage                                         *)
(***************************************************************************)
\* ok(bytes)
EncOk(bytes) == [k |-> "ok", bytes |-> bytes, error |-> ""]

\* err(reason)
EncErr(reason) == [k |-> "err", bytes |-> <<>>, error |-> reason]

\* an exception leaves the function
EncThrew == [k |-> "threw", bytes |-> <<>>, error |-> "TypeError"]

\* ok(new TextEncoder().encode(json)); a TypeError of JSON.stringify
\* leaves encodeMessage before the encoder runs
encodeJson(json) ==
  IF json.k = "throw" THEN EncThrew
  ELSE EncOk(TextEncoderEncode(IF json.k = "undefined" THEN <<>> ELSE json.text))

\* encodeMessage without the isGossipMessage check
encodeMessageUnchecked(message) == encodeJson(JSONstringify(message))

\* encodeMessage with a check of the content only
encodeMessageContentOnly(message) ==
  IF ~isValidContent(Get(message, kContent)) THEN EncErr("Invalid Message")
  ELSE encodeMessageUnchecked(message)

\* encodeMessage with the topics also checked against GOSSIP_TOPICS
encodeMessageKnownTopics(message) ==
  IF \/ ~isGossipMessage(message)
     \/ \E i \in 1..Len(Get(message, kTopics).items) :
          \A g \in 1..Len(GOSSIP_TOPICS) : Get(message, kTopics).items[i].s # GOSSIP_TOPICS[g]
    THEN EncErr("Invalid Message")
  ELSE encodeMessageUnchecked(message)

encodeMessage(message) ==
  IF ~isGossipMessage(message) THEN EncErr("Invalid Message")
  ELSE encodeJson(JSONstringify(message))

DecOk(val) == [k |-> "ok", val |-> val, error |-> ""]

DecErr(reason) == [k |-> "err", val |-> Undefined, error |-> reason]

DecThrew == [k |-> "threw", val |-> Undefined, error |-> "SyntaxError"]

\* !v
Falsy(v) ==
  \/ v.t \in {"undefined", "null"}
  \/ (v.t = "boolean" /\ ~v.b)
  \/ (v.t = "number" /\ (v.k = "nan" \/ (v.k = "fin" /\ v.m = 0)))
  \/ (v.t = "string" /\ v.s = <<>>)

\* the check of the parsed value with only the !message test
decodeCheckFalsyOnly(parsed) ==
  IF parsed.k = "throw" THEN DecThrew
  ELSE IF Falsy(parsed.val) THEN DecErr("Failed to decode Gossip message...")
  ELSE DecOk(parsed.val)

\* if (!message || !isGossipMessage(message)) return err(...); return ok(message)
\* a SyntaxError of JSON.parse leaves the try block before the check
decodeCheck(parsed) ==
  IF parsed.k = "throw" THEN DecThrew
  ELSE IF Falsy(parsed.val) \/ ~isGossipMessage(parsed.val)
    THEN DecErr("Failed to decode Gossip message...")
  ELSE DecOk(parsed.val)

\* the body of the try block
decodeTry(data) == decodeCheck(JSONparse(TextDecoderDecode(data)))

\* decodeMessage without the catch clause
decodeMessageNoCatch(data) == decodeTry(data)

\* catch (error) { return err(...) }
decodeCatch(r) == IF r.k = "threw" THEN DecErr("Failed to decode Gossip message...") ELSE r

\* try { ... } catch (error) { return err(...) }
decodeMessage(data) == decodeCatch(decodeTry(data))

(***************************************************************************)
(* Callers: a producer that encodes envelopes, a transport that carries    *)
(* the bytes, and a receiver that decodes what the transport delivers      *)
(***************************************************************************)
\* the longest topics array a producer builds
MaxTopics == 2

\* the content values a producer hands to encodeMessage
Contents ==
  \* 1: { peerId: 'peer-42' }
  << JSObject(<<Prop(kPeerId, JSString(<<112,101,101,114,45,52,50>>))>>),
  \* 2: { peerId: 'p1', rpcAddress: { address: '::1', family: 'IPv6', port: 8080 } }
     JSObject(<<Prop(kPeerId, JSString(<<112,49>>)), Prop(kRpcAddress, JSObject(<<Prop(kAddress, JSString(<<58,58,49>>)), Prop(kFamily, JSString(<<73,80,118,54>>)), Prop(kPort, JSInt(8080))>>))>>),
  \* 3: { peerId: 'p1', rpcAddress: { address: 'a', port: 1 } }
     JSObject(<<Prop(kPeerId, JSString(<<112,49>>)), Prop(kRpcAddress, JSObject(<<Prop(kAddress, JSString(<<97>>)), Prop(kPort, JSInt(1))>>))>>),
  \* 4: { peerId: 'p1', rpcAddress: undefined }
     JSObject(<<Prop(kPeerId, JSString(<<112,49>>)), Prop(kRpcAddress, Undefined)>>),
  \* 5: { peerId: 'p1', rpcAddress: { address: 'a' } }: no port
     JSObject(<<Prop(kPeerId, JSString(<<112,49>>)), Prop(kRpcAddress, JSObject(<<Prop(kAddress, JSString(<<97>>))>>))>>),
  \* 6: { message: {hash: 'h'}, root: '0xabc', count: 3 }
     JSObject(<<Prop(kMessage, JSObject(<<Prop(kHash, JSString(<<104>>))>>)), Prop(kRoot, JSString(<<48,120,97,98,99>>)), Prop(kCount, JSInt(3))>>),
  \* 7: { message: {transactionHash: 'tx'}, root: 'r', count: 0 }
     JSObject(<<Prop(kMessage, JSObject(<<Prop(kTransactionHash, JSString(<<116,120>>))>>)), Prop(kRoot, JSString(<<114>>)), Prop(kCount, JSInt(0))>>),
  \* 8: count: NaN
     JSObject(<<Prop(kMessage, JSObject(<<Prop(kHash, JSString(<<104>>))>>)), Prop(kRoot, JSString(<<114>>)), Prop(kCount, NaN)>>),
  \* 9: count: Infinity
     JSObject(<<Prop(kMessage, JSObject(<<Prop(kHash, JSString(<<104>>))>>)), Prop(kRoot, JSString(<<114>>)), Prop(kCount, JSInfinity(FALSE))>>),
  \* 10: count: -0
     JSObject(<<Prop(kMessage, JSObject(<<Prop(kHash, JSString(<<104>>))>>)), Prop(kRoot, JSString(<<114>>)), Prop(kCount, JSNumber(TRUE, 0, 0))>>),
  \* 11: count: 1.5
     JSObject(<<Prop(kMessage, JSObject(<<Prop(kHash, JSString(<<104>>))>>)), Prop(kRoot, JSString(<<114>>)), Prop(kCount, JSNumber(FALSE, 15, -1))>>),
  \* 12: count: 1e21
     JSObject(<<Prop(kMessage, JSObject(<<Prop(kHash, JSString(<<104>>))>>)), Prop(kRoot, JSString(<<114>>)), Prop(kCount, JSNumber(FALSE, 1, 21))>>),
  \* 13: {}
     JSObject(<<>>),
  \* 14: count: '3', a string
     JSObject(<<Prop(kMessage, JSObject(<<Prop(kHash, JSString(<<104>>))>>)), Prop(kRoot, JSString(<<114>>)), Prop(kCount, JSString(<<51>>))>>),
  \* 15: no message
     JSObject(<<Prop(kRoot, JSString(<<114>>)), Prop(kCount, JSInt(3))>>),
  \* 16: no root
     JSObject(<<Prop(kMessage, JSObject(<<Prop(kHash, JSString(<<104>>))>>)), Prop(kCount, JSInt(3))>>),
  \* 17: no count
     JSObject(<<Prop(kMessage, JSObject(<<Prop(kHash, JSString(<<104>>))>>)), Prop(kRoot, JSString(<<114>>))>>),
  \* 18: message of neither payload shape
     JSObject(<<Prop(kMessage, JSObject(<<Prop(<<120>>, JSInt(1))>>)), Prop(kRoot, JSString(<<114>>)), Prop(kCount, JSInt(3))>>),
  \* 19: { peerId: 7 }
     JSObject(<<Prop(kPeerId, JSInt(7))>>),
  \* 20: an extra field
     JSObject(<<Prop(kPeerId, JSString(<<112,49>>)), Prop(<<101,120,116,114,97>>, JSString(<<120>>))>>),
  \* 21: an extra field holding a BigInt
     JSObject(<<Prop(kPeerId, JSString(<<112,49>>)), Prop(<<101,120,116,114,97>>, JSBigInt(10))>>),
  \* 22: an extra field referring back to the content
     JSObject(<<Prop(kPeerId, JSString(<<112,49>>)), Prop(<<115,101,108,102>>, Cyclic)>>),
  \* 23: an extra field holding a function
     JSObject(<<Prop(kPeerId, JSString(<<112,49>>)), Prop(<<102,110>>, JSFunction)>>),
  \* 24: peerId with a quote, a backslash, a line feed, e-acute, an emoji, a lone surrogate
     JSObject(<<Prop(kPeerId, JSString(<<97,34,92,10,233,55357,56832,55296>>))>>) >>

\* the topic strings a producer uses
TopicStrings ==
  \* 1: NETWORK_TOPIC_CONTACT
  << NETWORK_TOPIC_CONTACT,
  \* 2: NETWORK_TOPIC_PRIMARY
     NETWORK_TOPIC_PRIMARY,
  \* 3: 'x', not in GOSSIP_TOPICS
     <<120>>,
  \* 4: 't"' followed by an emoji and a lone surrogate
     <<116,34,55357,56832,56320>> >>

\* values handed to encodeMessage that were not built as an envelope
RawMessages ==
  \* 1: null
  << JSNull,
  \* 2: undefined
     Undefined,
  \* 3: 'str'
     JSString(<<115,116,114>>),
  \* 4: 42
     JSInt(42),
  \* 5: {}
     JSObject(<<>>),
  \* 6: []
     JSArray(<<>>),
  \* 7: no topics
     JSObject(<<Prop(kContent, JSObject(<<Prop(kPeerId, JSString(<<112,49>>))>>))>>),
  \* 8: no content
     JSObject(<<Prop(kTopics, JSArray(<<JSString(<<120>>)>>))>>),
  \* 9: topics: 'x', not an array
     JSObject(<<Prop(kContent, JSObject(<<Prop(kPeerId, JSString(<<112,49>>))>>)), Prop(kTopics, JSString(<<120>>))>>),
  \* 10: topics: [1]
     JSObject(<<Prop(kContent, JSObject(<<Prop(kPeerId, JSString(<<112,49>>))>>)), Prop(kTopics, JSArray(<<JSInt(1)>>))>>),
  \* 11: topics: ['x', undefined]
     JSObject(<<Prop(kContent, JSObject(<<Prop(kPeerId, JSString(<<112,49>>))>>)), Prop(kTopics, JSArray(<<JSString(<<120>>), Undefined>>))>>),
  \* 12: content: null
     JSObject(<<Prop(kContent, JSNull), Prop(kTopics, JSArray(<<JSString(<<120>>)>>))>>),
  \* 13: an extra field beside content and topics
     JSObject(<<Prop(kContent, JSObject(<<Prop(kPeerId, JSString(<<112,49>>))>>)), Prop(kTopics, JSArray(<<JSString(<<120>>)>>)), Prop(<<101,120,116,114,97>>, JSArray(<<JSInt(1), JSObject(<<>>)>>))>>),
  \* 14: an extra BigInt beside content and topics
     JSObject(<<Prop(kContent, JSObject(<<Prop(kPeerId, JSString(<<112,49>>))>>)), Prop(kTopics, JSArray(<<JSString(<<120>>)>>)), Prop(<<101,120,116,114,97>>, JSBigInt(10))>>) >>

\* byte arrays the transport delivers (UTF-8 of the text shown)
Frames ==
  \* 1: {"content":{"peerId":"peer-42"},"topics":["f_network_topic_contact"]}
  << <<123,34,99,111,110,116,101,110,116,34,58,123,34,112,101,101,114,73,100,34,58,34,112,101,101,114,45,52,50,34,125,44,34,116,111,112,105,99,115,34,58,91,34,102,95,110,101,116,119,111,114,107,95,116,111,112,105,99,95,99,111,110,116,97,99,116,34,93,125>>,
  \* 2: {"content":{"peerId":"p1"},"topics":[]}
     <<123,34,99,111,110,116,101,110,116,34,58,123,34,112,101,101,114,73,100,34,58,34,112,49,34,125,44,34,116,111,112,105,99,115,34,58,91,93,125>>,
  \* 3: not json
     <<110,111,116,32,106,115,111,110>>,
  \* 4: {"topics":["x"]}
     <<123,34,116,111,112,105,99,115,34,58,91,34,120,34,93,125>>,
  \* 5: null
     <<110,117,108,108>>,
  \* 6: 0
     <<48>>,
  \* 7: ""
     <<34,34>>,
  \* 8: false
     <<102,97,108,115,101>>,
  \* 9: []
     <<91,93>>,
  \* 10: {}
     <<123,125>>,
  \* 11: {"content":{"message":{"hash":"h"},"root":"0xabc","count":3},"topics":["f_network_topic_primary"]}
     <<123,34,99,111,110,116,101,110,116,34,58,123,34,109,101,115,115,97,103,101,34,58,123,34,104,97,115,104,34,58,34,104,34,125,44,34,114,111,111,116,34,58,34,48,120,97,98,99,34,44,34,99,111,117,110,116,34,58,51,125,44,34,116,111,112,105,99,115,34,58,91,34,102,95,110,101,116,119,111,114,107,95,116,111,112,105,99,95,112,114,105,109,97,114,121,34,93,125>>,
  \* 12: {"content":{"message":{"transactionHash":"tx"},"root":"r","count":-1.50e2},"topics":["x"]}
     <<123,34,99,111,110,116,101,110,116,34,58,123,34,109,101,115,115,97,103,101,34,58,123,34,116,114,97,110,115,97,99,116,105,111,110,72,97,115,104,34,58,34,116,120,34,125,44,34,114,111,111,116,34,58,34,114,34,44,34,99,111,117,110,116,34,58,45,49,46,53,48,101,50,125,44,34,116,111,112,105,99,115,34,58,91,34,120,34,93,125>>,
  \* 13: {"content":{"message":{"hash":"h"},"root":"r","count":1e999},"topics":["x"]}
     <<123,34,99,111,110,116,101,110,116,34,58,123,34,109,101,115,115,97,103,101,34,58,123,34,104,97,115,104,34,58,34,104,34,125,44,34,114,111,111,116,34,58,34,114,34,44,34,99,111,117,110,116,34,58,49,101,57,57,57,125,44,34,116,111,112,105,99,115,34,58,91,34,120,34,93,125>>,
  \* 14: {"content":{"message":{"hash":"h"},"root":"r","count":-0},"topics":["x"]}
     <<123,34,99,111,110,116,101,110,116,34,58,123,34,109,101,115,115,97,103,101,34,58,123,34,104,97,115,104,34,58,34,104,34,125,44,34,114,111,111,116,34,58,34,114,34,44,34,99,111,117,110,116,34,58,45,48,125,44,34,116,111,112,105,99,115,34,58,91,34,120,34,93,125>>,
  \* 15: {"content":{"message":{"hash":"h"},"root":"r","count":"3"},"topics":["x"]}
     <<123,34,99,111,110,116,101,110,116,34,58,123,34,109,101,115,115,97,103,101,34,58,123,34,104,97,115,104,34,58,34,104,34,125,44,34,114,111,111,116,34,58,34,114,34,44,34,99,111,117,110,116,34,58,34,51,34,125,44,34,116,111,112,105,99,115,34,58,91,34,120,34,93,125>>,
  \* 16: {"content":{"message":{"hash":"h"},"root":"r"},"topics":["x"]}
     <<123,34,99,111,110,116,101,110,116,34,58,123,34,109,101,115,115,97,103,101,34,58,123,34,104,97,115,104,34,58,34,104,34,125,44,34,114,111,111,116,34,58,34,114,34,125,44,34,116,111,112,105,99,115,34,58,91,34,120,34,93,125>>,
  \* 17: {"content":{"peerId":"p"},"topics":["x","y"]}
     <<123,34,99,111,110,116,101,110,116,34,58,123,34,112,101,101,114,73,100,34,58,34,112,34,125,44,34,116,111,112,105,99,115,34,58,91,34,120,34,44,34,121,34,93,125>>,
  \* 18:  { "content" : {"peerId":"\u00e9\ud83d\/"} ,\n"topics":["a\n\"", "b"] } 
     <<32,123,32,34,99,111,110,116,101,110,116,34,32,58,32,123,34,112,101,101,114,73,100,34,58,34,92,117,48,48,101,57,92,117,100,56,51,100,92,47,34,125,32,44,10,34,116,111,112,105,99,115,34,58,91,34,97,92,110,92,34,34,44,32,34,98,34,93,32,125,32>>,
  \* 19: {"content":{"peerId":1},"content":{"peerId":"p"},"topics":[],"topics":["x"]}
     <<123,34,99,111,110,116,101,110,116,34,58,123,34,112,101,101,114,73,100,34,58,49,125,44,34,99,111,110,116,101,110,116,34,58,123,34,112,101,101,114,73,100,34,58,34,112,34,125,44,34,116,111,112,105,99,115,34,58,91,93,44,34,116,111,112,105,99,115,34,58,91,34,120,34,93,125>>,
  \* 20: <BOM>{"content":{"peerId":"p"},"topics":["x"]}
     <<239,187,191,123,34,99,111,110,116,101,110,116,34,58,123,34,112,101,101,114,73,100,34,58,34,112,34,125,44,34,116,111,112,105,99,115,34,58,91,34,120,34,93,125>>,
  \* 21: {"content":{"peerId":"p","x":null},"topics":["x"],"y":[1,{}]}
     <<123,34,99,111,110,116,101,110,116,34,58,123,34,112,101,101,114,73,100,34,58,34,112,34,44,34,120,34,58,110,117,108,108,125,44,34,116,111,112,105,99,115,34,58,91,34,120,34,93,44,34,121,34,58,91,49,44,123,125,93,125>>,
  \* 22: {"content":{"peerId":"p","rpcAddress":{"address":"a","port":1,"family":"IPv4"}},"topics":["x"]}
     <<123,34,99,111,110,116,101,110,116,34,58,123,34,112,101,101,114,73,100,34,58,34,112,34,44,34,114,112,99,65,100,100,114,101,115,115,34,58,123,34,97,100,100,114,101,115,115,34,58,34,97,34,44,34,112,111,114,116,34,58,49,44,34,102,97,109,105,108,121,34,58,34,73,80,118,52,34,125,125,44,34,116,111,112,105,99,115,34,58,91,34,120,34,93,125>>,
  \* 23: {"content":{"peerId":"p","rpcAddress":null},"topics":["x"]}
     <<123,34,99,111,110,116,101,110,116,34,58,123,34,112,101,101,114,73,100,34,58,34,112,34,44,34,114,112,99,65,100,100,114,101,115,115,34,58,110,117,108,108,125,44,34,116,111,112,105,99,115,34,58,91,34,120,34,93,125>>,
  \* 24: {"content":{},"topics":["f_network_topic_primary"]}
     <<123,34,99,111,110,116,101,110,116,34,58,123,125,44,34,116,111,112,105,99,115,34,58,91,34,102,95,110,101,116,119,111,114,107,95,116,111,112,105,99,95,112,114,105,109,97,114,121,34,93,125>>,
  \* 25: {"content":{"peerId":"\xe9\U0001f600"},"topics":["\u20ac"]}
     <<123,34,99,111,110,116,101,110,116,34,58,123,34,112,101,101,114,73,100,34,58,34,195,169,240,159,152,128,34,125,44,34,116,111,112,105,99,115,34,58,91,34,226,130,172,34,93,125>>,
  \* 26: {"content":{"peerId":"p"},"topics":"x"}
     <<123,34,99,111,110,116,101,110,116,34,58,123,34,112,101,101,114,73,100,34,58,34,112,34,125,44,34,116,111,112,105,99,115,34,58,34,120,34,125>>,
  \* 27: {"content":{"peerId":"p"},"topics":[1]}
     <<123,34,99,111,110,116,101,110,116,34,58,123,34,112,101,101,114,73,100,34,58,34,112,34,125,44,34,116,111,112,105,99,115,34,58,91,49,93,125>> >>

\* bytes that are never valid where they are written: a lone continuation
\* byte and a byte that occurs in no UTF-8 sequence
InvalidBytes == {128, 255}

TopicLists == UNION {[1..n -> 1..Len(TopicStrings)] : n \in 0..MaxTopics}

\* { content: c, topics: [...] }
Envelope(c, ts) ==
  JSObject(<<Prop(kContent, c),
             Prop(kTopics, JSArray([i \in 1..Len(ts) |-> JSString(TopicStrings[ts[i]])]))>>)

VARIABLES
  pc,        \* idle, encoded, received, republished or delivered
  source,    \* who made the first call: none, producer or network
  message,   \* the argument of the last encodeMessage call
  encoded,   \* the result of the last encodeMessage call
  data,      \* the argument of the last decodeMessage call
  decoded,   \* the result of the last decodeMessage call
  registry,  \* the array that GOSSIP_TOPICS is bound to
  interval,  \* the value of GOSSIP_CONTACT_INTERVAL
  calls      \* for each task, the call it is in (its frame)

vars == <<pc, source, message, encoded, data, decoded, registry, interval, calls>>

\* what the sequential callers use
seqVars == <<pc, source, message, encoded, data, decoded>>

\* the tasks that call concurrently
NumTasks == 2

Tasks == 1..NumTasks

\* a task that is in no call
NoCall ==
  [op |-> "none", at |-> "idle", arg |-> Undefined, arg0 |-> Undefined,
   bytes |-> <<>>, bytes0 |-> <<>>, json |-> <<>>, parsed |-> Undefined,
   result |-> [k |-> "none"], overlapped |-> FALSE]

Init ==
  /\ pc = "idle"
  /\ source = "none"
  /\ message = Undefined
  /\ encoded = [k |-> "none", bytes |-> <<>>, error |-> ""]
  /\ data = <<>>
  /\ decoded = [k |-> "none", val |-> Undefined, error |-> ""]
  /\ registry = GOSSIP_TOPICS
  /\ interval = GOSSIP_CONTACT_INTERVAL
  /\ calls = [t \in Tasks |-> NoCall]

\* a producer builds an envelope and encodes it
Publish(c, ts) ==
  /\ pc = "idle"
  /\ pc' = "encoded"
  /\ source' = "producer"
  /\ message' = Envelope(Contents[c], ts)
  /\ encoded' = encodeMessage(message')
  /\ UNCHANGED <<data, decoded>>
  /\ UNCHANGED <<registry, interval, calls>>

\* a caller hands encodeMessage a value that was not built as an envelope
PublishRaw(i) ==
  /\ pc = "idle"
  /\ pc' = "encoded"
  /\ source' = "producer"
  /\ message' = RawMessages[i]
  /\ encoded' = encodeMessage(message')
  /\ UNCHANGED <<data, decoded>>
  /\ UNCHANGED <<registry, interval, calls>>

\* the transport delivers the first cut bytes of a frame from a peer
Receive(j, cut) ==
  /\ pc = "idle"
  /\ pc' = "received"
  /\ source' = "network"
  /\ data' = SubSeq(Frames[j], 1, cut)
  /\ decoded' = decodeMessage(data')
  /\ UNCHANGED <<message, encoded>>
  /\ UNCHANGED <<registry, interval, calls>>

\* the transport delivers a frame with the byte at p replaced by x
ReceiveCorrupt(j, p, x) ==
  /\ pc = "idle"
  /\ pc' = "received"
  /\ source' = "network"
  /\ data' = [Frames[j] EXCEPT ![p] = x]
  /\ decoded' = decodeMessage(data')
  /\ UNCHANGED <<message, encoded>>
  /\ UNCHANGED <<registry, interval, calls>>

\* the bytes encodeMessage returned reach a receiver, which decodes them
Deliver ==
  /\ pc \in {"encoded", "republished"}
  /\ encoded.k = "ok"
  /\ pc' = "delivered"
  /\ data' = encoded.bytes
  /\ decoded' = decodeMessage(data')
  /\ UNCHANGED <<source, message, encoded>>
  /\ UNCHANGED <<registry, interval, calls>>

\* a receiver encodes the envelope it decoded, to pass it on
Republish ==
  /\ pc = "received"
  /\ decoded.k = "ok"
  /\ pc' = "republished"
  /\ message' = decoded.val
  /\ encoded' = encodeMessage(message')
  /\ UNCHANGED <<source, data, decoded>>
  /\ UNCHANGED <<registry, interval, calls>>

Next ==
  \/ \E c \in 1..Len(Contents), ts \in TopicLists : Publish(c, ts)
  \/ \E i \in 1..Len(RawMessages) : PublishRaw(i)
  \/ \E j \in 1..Len(Frames) : \E cut \in 0..Len(Frames[j]) : Receive(j, cut)
  \/ \E j \in 1..Len(Frames) : \E p \in 1..Len(Frames[j]), x \in InvalidBytes :
       ReceiveCorrupt(j, p, x)
  \/ Deliver
  \/ Republish

Spec == Init /\ [][Next]_vars

TypeOK ==
  /\ pc \in {"idle", "encoded", "received", "republished", "delivered"}
  /\ source \in {"none", "producer", "network"}
  /\ encoded.k \in {"none", "ok", "err", "threw"}
  /\ decoded.k \in {"none", "ok", "err", "threw"}

(***************************************************************************)
(* Concurrent callers: each task is in at most one call, and a call is a   *)
(* sequence of steps, one per statement, that reads and writes only the    *)
(* call's own frame                                                        *)
(***************************************************************************)
\* the envelopes and the byte arrays that the tasks call with
TaskMessages ==
  <<Envelope(Contents[1], <<1>>), Envelope(Contents[6], <<2, 3>>),
    Envelope(Contents[13], <<2>>), Envelope(Contents[21], <<1>>)>>

TaskFrames == <<Frames[1], Frames[2], Frames[3]>>

\* one binding shared by all calls instead of a local of each call
BindLocalShared(frames, t, name, v) ==
  [u \in DOMAIN frames |-> IF name = "json" THEN [frames[u] EXCEPT !.json = v]
                           ELSE [frames[u] EXCEPT !.parsed = v]]

\* const name = v in the frame of task t
BindLocal(frames, t, name, v) ==
  IF name = "json" THEN [frames EXCEPT ![t].json = v]
  ELSE [frames EXCEPT ![t].parsed = v]

InCall(c) == c.at \notin {"idle", "done"}

\* task t takes a step that leaves its frame as c: the calls of the other
\* tasks that are under way have now run interleaved with it
Step(frames, t, c) ==
  [u \in Tasks |-> IF u = t THEN [c EXCEPT !.overlapped = @ \/ \E w \in Tasks \ {t} : InCall(frames[w])]
                   ELSE IF InCall(frames[u]) THEN [frames[u] EXCEPT !.overlapped = TRUE]
                   ELSE frames[u]]

\* task t calls encodeMessage(TaskMessages[i])
CallEncode(t, i) ==
  /\ calls[t].at = "idle"
  /\ calls' = Step(calls, t, [NoCall EXCEPT !.op = "encode", !.at = "validate",
                                             !.arg = TaskMessages[i],
                                             !.arg0 = TaskMessages[i]])
  /\ UNCHANGED <<registry, interval, seqVars>>

\* if (!isGossipMessage(message)) return err('Invalid Message')
EncodeValidate(t) ==
  /\ calls[t].op = "encode" /\ calls[t].at = "validate"
  /\ calls' = Step(calls, t,
       IF ~isGossipMessage(calls[t].arg)
         THEN [calls[t] EXCEPT !.at = "done", !.result = EncErr("Invalid Message")]
         ELSE [calls[t] EXCEPT !.at = "stringify"])
  /\ UNCHANGED <<registry, interval, seqVars>>

\* const json = JSON.stringify(message)
EncodeStringify(t) ==
  /\ calls[t].op = "encode" /\ calls[t].at = "stringify"
  /\ LET json == JSONstringify(calls[t].arg) IN
     calls' = IF json.k = "throw"
       THEN Step(calls, t, [calls[t] EXCEPT !.at = "done", !.result = EncThrew])
       ELSE Step(BindLocal(calls, t, "json", json.text), t,
                 [BindLocal(calls, t, "json", json.text)[t] EXCEPT !.at = "encode"])
  /\ UNCHANGED <<registry, interval, seqVars>>

\* return ok(new TextEncoder().encode(json))
EncodeReturn(t) ==
  /\ calls[t].op = "encode" /\ calls[t].at = "encode"
  /\ calls' = Step(calls, t, [calls[t] EXCEPT !.at = "done",
                                              !.result = EncOk(TextEncoderEncode(calls[t].json))])
  /\ UNCHANGED <<registry, interval, seqVars>>

\* task t calls decodeMessage(TaskFrames[j])
CallDecode(t, j) ==
  /\ calls[t].at = "idle"
  /\ calls' = Step(calls, t, [NoCall EXCEPT !.op = "decode", !.at = "decode",
                                             !.bytes = TaskFrames[j],
                                             !.bytes0 = TaskFrames[j]])
  /\ UNCHANGED <<registry, interval, seqVars>>

\* const json = new TextDecoder().decode(data)
DecodeText(t) ==
  /\ calls[t].op = "decode" /\ calls[t].at = "decode"
  /\ LET bound == BindLocal(calls, t, "json", TextDecoderDecode(calls[t].bytes)) IN
     calls' = Step(bound, t, [bound[t] EXCEPT !.at = "parse"])
  /\ UNCHANGED <<registry, interval, seqVars>>

\* const message = JSON.parse(json), with the catch clause
DecodeParse(t) ==
  /\ calls[t].op = "decode" /\ calls[t].at = "parse"
  /\ LET p == JSONparse(calls[t].json)
         bound == BindLocal(calls, t, "message", p.val)
     IN calls' = IF p.k = "throw"
          THEN Step(calls, t, [calls[t] EXCEPT !.at = "done",
                 !.result = DecErr("Failed to decode Gossip message...")])
          ELSE Step(bound, t, [bound[t] EXCEPT !.at = "validate"])
  /\ UNCHANGED <<registry, interval, seqVars>>

\* if (!message || !isGossipMessage(message)) return err(...); return ok(message)
DecodeValidate(t) ==
  /\ calls[t].op = "decode" /\ calls[t].at = "validate"
  /\ calls' = Step(calls, t, [calls[t] EXCEPT !.at = "done", !.result =
       IF Falsy(calls[t].parsed) \/ ~isGossipMessage(calls[t].parsed)
         THEN DecErr("Failed to decode Gossip message...")
         ELSE DecOk(calls[t].parsed)])
  /\ UNCHANGED <<registry, interval, seqVars>>

\* the caller takes the result; task t is free for its next call
Return(t) ==
  /\ calls[t].at = "done"
  /\ calls' = [calls EXCEPT ![t] = NoCall]
  /\ UNCHANGED <<registry, interval, seqVars>>

NextConc ==
  \E t \in Tasks :
    \/ \E i \in 1..Len(TaskMessages) : CallEncode(t, i)
    \/ EncodeValidate(t)
    \/ EncodeStringify(t)
    \/ EncodeReturn(t)
    \/ \E j \in 1..Len(TaskFrames) : CallDecode(t, j)
    \/ DecodeText(t)
    \/ DecodeParse(t)
    \/ DecodeValidate(t)
    \/ Return(t)

SpecConc == Init /\ [][NextConc]_vars

(***************************************************************************)
(* Properties                                                              *)
(***************************************************************************)
RECURSIVE StructEq(_, _)
\* structural equality: the same kind of value with equal parts; a property
\* that is undefined counts as absent, and 0 equals -0
StructEq(a, b) ==
  IF a.t # b.t THEN FALSE
  ELSE CASE a.t = "number" ->
              /\ a.k = b.k
              /\ \/ a.k = "nan"
                 \/ a.k = "inf" /\ a.neg = b.neg
                 \/ a.k = "fin" /\ a.m = b.m /\ a.e = b.e /\ (a.m = 0 \/ a.neg = b.neg)
         [] a.t = "string" -> a.s = b.s
         [] a.t = "boolean" -> a.b = b.b
         [] a.t = "bigint" -> a.n = b.n
         [] a.t = "array" ->
              /\ Len(a.items) = Len(b.items)
              /\ \A i \in 1..Len(a.items) : StructEq(a.items[i], b.items[i])
         [] a.t = "object" ->
              /\ \A i \in 1..Len(a.props) : StructEq(a.props[i].val, Get(b, a.props[i].key))
              /\ \A i \in 1..Len(b.props) : StructEq(Get(a, b.props[i].key), b.props[i].val)
         [] OTHER -> TRUE

\* the value that decodeMessage parses out of the bytes it was given
Parsed == JSONparse(TextDecoderDecode(data))

\* the bytes are not well-formed UTF-8: some byte is replaced by U+FFFD
\* without being the start of a complete sequence
Malformed(b) ==
  \E i \in 1..Len(b) :
    /\ DecodeAt(b, i) = <<65533>>
    /\ ~(BytesNeeded(b[i]) > 0 /\ ValidPrefix(b, i, BytesNeeded(b[i])))

AfterEncode == pc \in {"encoded", "republished"}

AfterDecode == pc \in {"received", "delivered"}

\* C1: every envelope the validator accepts is encoded to bytes, and decoding
\* those bytes succeeds with an envelope structurally equal to it.
RoundTrip ==
  /\ (pc = "encoded" /\ isGossipMessage(message)) => encoded.k = "ok"
  /\ (pc = "delivered" /\ source = "producer")
       => (decoded.k = "ok" /\ StructEq(decoded.val, message))

\* C2: encodeMessage returns an error, and no bytes, for every value the
\* validator rejects (empty topics, content of no variant), and returns
\* bytes only for values the validator accepts.
EncodeGate ==
  AfterEncode =>
    /\ encoded.k = "ok" => isGossipMessage(message)
    /\ ~isGossipMessage(message) => (encoded.k = "err" /\ encoded.bytes = <<>>)
    /\ Get(message, kTopics) = JSArray(<<>>) => encoded.k = "err"
    /\ Get(message, kContent) = JSObject(<<>>) => encoded.k = "err"

EncodeGateWitness ==
  /\ pc = "encoded"
  /\ isValidContent(Get(message, kContent))
  /\ Get(message, kTopics) = JSArray(<<>>)
  /\ encoded.k = "err"

\* C3: a value that decodeMessage returns satisfies the validator (topics a
\* non-empty array of strings, content of one of the variants); bytes that
\* parse to a falsy value, to an object without content or to an object
\* with empty topics give an error.
DecodeGate ==
  AfterDecode =>
    /\ decoded.k = "ok" =>
         /\ isGossipMessage(decoded.val)
         /\ Get(decoded.val, kTopics).t = "array"
         /\ Len(Get(decoded.val, kTopics).items) > 0
         /\ \A i \in 1..Len(Get(decoded.val, kTopics).items) :
              Get(decoded.val, kTopics).items[i].t = "string"
    /\ (/\ Parsed.k = "value"
        /\ \/ Falsy(Parsed.val)
           \/ Get(Parsed.val, kContent) = Undefined
           \/ Get(Parsed.val, kTopics) = JSArray(<<>>))
         => decoded.k = "err"

DecodeGateWitness ==
  /\ pc = "received"
  /\ Parsed.k = "value"
  /\ isValidContent(Get(Parsed.val, kContent))
  /\ Get(Parsed.val, kTopics) = JSArray(<<>>)
  /\ decoded.k = "err"

\* C4: decodeMessage never throws: every call returns a result, and a
\* SyntaxError of the parser is returned as the error result.
DecodeNeverThrows ==
  AfterDecode =>
    /\ decoded.k \in {"ok", "err"}
    /\ Parsed.k = "throw" => decoded.k = "err"

DecodeNeverThrowsWitness ==
  /\ pc = "received"
  /\ Parsed.k = "throw"
  /\ decoded.k = "err"

\* C5: decoding bytes that are not well-formed UTF-8 returns an error, also
\* when the bad bytes are inside a string of an otherwise valid envelope.
MalformedBytesRejected ==
  (AfterDecode /\ Malformed(data)) => decoded.k = "err"

\* C6: encodeMessage never throws: every call ends with a success result
\* carrying bytes or an error result carrying a reason.
EncodeNeverThrows ==
  AfterEncode => encoded.k \in {"ok", "err"}

\* the values the validator is said to accept, in the words of C7
AcceptedShape(v) ==
  LET ts == Get(v, kTopics)
      c == Get(v, kContent)
      addr == Get(c, kRpcAddress)
  IN /\ ts.t = "array" /\ Len(ts.items) > 0
     /\ \A i \in 1..Len(ts.items) : ts.items[i].t = "string"
     /\ \/ /\ Get(c, kPeerId).t = "string"
           /\ \/ addr.t = "undefined"
              \/ /\ Get(addr, kAddress).t = "string"
                 /\ Get(addr, kPort).t = "number"
                 /\ Get(addr, kFamily).t \in {"undefined", "string"}
        \/ /\ Get(c, kRoot).t = "string"
           /\ Get(c, kCount).t = "number"
           /\ (isMessage(Get(c, kMessage)) \/ isIDRegistryEvent(Get(c, kMessage)))

HasUnknownTopic(ts) ==
  /\ ts.t = "array"
  /\ \E i \in 1..Len(ts.items) :
       /\ ts.items[i].t = "string"
       /\ \A g \in 1..Len(GOSSIP_TOPICS) : ts.items[i].s # GOSSIP_TOPICS[g]

\* C9: topics are not checked against GOSSIP_TOPICS: an otherwise valid
\* envelope with an unknown topic is accepted by encodeMessage and by
\* decodeMessage, and its topic strings come out of both unchanged.
TopicsNotChecked ==
  /\ (/\ AfterEncode
      /\ isValidContent(Get(message, kContent))
      /\ isTopicList(Get(message, kTopics)))
       => encoded.k # "err"
  /\ (/\ AfterDecode
      /\ Parsed.k = "value"
      /\ isValidContent(Get(Parsed.val, kContent))
      /\ isTopicList(Get(Parsed.val, kTopics)))
       => (decoded.k = "ok" /\ Get(decoded.val, kTopics) = Get(Parsed.val, kTopics))
  /\ (pc = "delivered" /\ decoded.k = "ok")
       => Get(decoded.val, kTopics) = Get(message, kTopics)

TopicsNotCheckedWitness ==
  /\ pc = "delivered"
  /\ source = "producer"
  /\ HasUnknownTopic(Get(message, kTopics))
  /\ decoded.k = "ok"
  /\ Get(decoded.val, kTopics) = Get(message, kTopics)

\* C8: calls are independent: under any interleaving each call returns what
\* it returns when run alone, no call changes its argument, and GOSSIP_TOPICS
\* (the contact topic, then the primary topic) and the interval (10000)
\* stay as they are.
CallsIndependent ==
  /\ registry = <<NETWORK_TOPIC_CONTACT, NETWORK_TOPIC_PRIMARY>>
  /\ interval = 10000
  /\ \A t \in Tasks :
       /\ calls[t].arg = calls[t].arg0
       /\ calls[t].bytes = calls[t].bytes0
       /\ (calls[t].at = "done" /\ calls[t].op = "encode")
            => calls[t].result = encodeMessage(calls[t].arg0)
       /\ (calls[t].at = "done" /\ calls[t].op = "decode")
            => calls[t].result = decodeMessage(calls[t].bytes0)

CallsIndependentWitness ==
  \E t \in Tasks, u \in Tasks :
    /\ t # u
    /\ calls[t].at = "done" /\ calls[t].op = "encode"
    /\ calls[t].overlapped /\ calls[t].result.k = "ok"
    /\ calls[u].at = "done" /\ calls[u].op = "decode"
    /\ calls[u].overlapped /\ calls[u].result.k = "ok"

\* C10: an envelope that decodeMessage returned is encoded to bytes again,
\* and decoding those bytes succeeds with a structurally equal envelope.
ReencodeStable ==
  /\ pc = "republished" => encoded.k = "ok"
  /\ (pc = "delivered" /\ source = "network")
       => (decoded.k = "ok" /\ StructEq(decoded.val, message))
====
